---- MODULE Spec2Model ----
(***************************************************************************)
(* A model of pwkit.numutil: the gap-aware slicers (generators), the       *)
(* broadcasting decorator, the data-frame reducer and smoother, and the    *)
(* parallel newton/quad wrappers.  The library keeps no state of its own:  *)
(* the state of the model is the call a client made last, the generator    *)
(* object it is iterating, and what the call returned.                     *)
(***************************************************************************)
EXTENDS Integers, Sequences, FiniteSets, TLC

(***************************************************************************)
(* Bounds of the model.                                                    *)
(***************************************************************************)
MaxLen == 5        \* longest `values` array handed to the slicers
MaxDelta == 2      \* adjacent values differ by -1..MaxDelta
MaxGap == 1        \* numeric maxgap is drawn from 0..MaxGap
MaxTarget == 4     \* target_len is drawn from the halves 0/2..MaxTarget/2
MaxDim == 2        \* an array axis has 1..MaxDim elements
MaxNDim == 2       \* an array has 0..MaxNDim axes
MaxArgNDim == 1    \* ... 0..MaxArgNDim axes as argument of a decorated call
MaxArgs == 2       \* positional arguments of a decorated call
MaxNArr == 2       \* n_arr of a decorator is drawn from 0..MaxNArr
MaxRows == 3       \* a data frame has 0..MaxRows rows
MaxChunks == 2     \* chunk_slicers gives 0..MaxChunks slices
MaxWindow == 3     \* a smoothing window has 0..MaxWindow points
MaxStride == 3     \* the stride k of dfsmooth is None or in 0..MaxStride
MaxData == 5       \* the series given to usmooth have 0..MaxData points
MaxX == 6          \* the integers among the points given to a tophat or step
                   \* function are 4..MaxX

(***************************************************************************)
(* Python values.                                                          *)
(***************************************************************************)
\* None, as it appears in slice (None, idx); array indices are >= 0.
None == -1

\* slice (start, stop)
Slice(start, stop) == [start |-> start, stop |-> stop]

\* slice.indices (l) for a slice of stride None: None resolves to the end
\* of the range, other bounds are clipped to [0, l].
Clip(i, l) == IF i > l THEN l ELSE i

SliceIndices(s, l) ==
    [start |-> IF s.start = None THEN 0 ELSE Clip(s.start, l),
     stop  |-> IF s.stop = None THEN l ELSE Clip(s.stop, l)]

\* A maxgap argument: a number, NaN or +infinity.
Num(v) == [kind |-> "num", v |-> v]
NaN == [kind |-> "nan", v |-> 0]
Inf == [kind |-> "inf", v |-> 0]

\* Mutant: the test is maxgap <= 0, which NaN passes.
GtZeroOrNaN(m) == \/ m.kind = "inf" \/ m.kind = "nan"
                  \/ m.kind = "num" /\ m.v > 0

\* maxgap > 0 as Python evaluates it: False for NaN, True for +inf.
GtZero(m) == \/ m.kind = "inf"
             \/ m.kind = "num" /\ m.v > 0

\* d > maxgap for a finite d: nothing exceeds +inf.
ExceedsGap(d, m) == m.kind = "num" /\ d > m.v

\* A target_len argument: the rational num/den, den > 0.
Rat(n, d) == [num |-> n, den |-> d]

TargetPositive(t) == t.num > 0

Max2(a, b) == IF a > b THEN a ELSE b
Min2(a, b) == IF a < b THEN a ELSE b

(***************************************************************************)
(* slice_around_gaps: a generator.  Its frame holds the locals; calling    *)
(* the function runs none of the body, each next() runs it to the next     *)
(* yield, to a raise, or to the end.                                       *)
(***************************************************************************)
\* delta = values[1:] - values[:-1]; np.any (delta < 0)
AnyDecreasing(values) ==
    \E j \in 1..(Len(values) - 1) : values[j + 1] - values[j] < 0

\* Mutant: a difference equal to maxgap splits as well.
WhGapGeq(values, maxgap) ==
    SelectSeq([j \in 1..(Len(values) - 1) |-> j],
              LAMBDA j : maxgap.kind = "num"
                         /\ values[j + 1] - values[j] >= maxgap.v)

\* whgap = np.where (delta > maxgap)[0] + 1, ascending.  delta[i] is
\* values[i+1] - values[i] from index 0, which is the model's
\* values[j+1] - values[j] with j = i + 1.
WhGap(values, maxgap) ==
    SelectSeq([j \in 1..(Len(values) - 1) |-> j],
              LAMBDA j : ExceedsGap(values[j + 1] - values[j], maxgap))

SAGFrame(values, maxgap) ==
    [pc |-> "start", values |-> values, maxgap |-> maxgap,
     whgap |-> <<>>, k |-> 1, prev_idx |-> None]

\* What one next() gives: the frame after it and the outcome.
Yield(f, s) == [frame |-> f, res |-> "yield", val |-> s, err |-> "none"]
Raise(f, e) == [frame |-> [f EXCEPT !.pc = "dead"], res |-> "raise",
                val |-> Slice(None, None), err |-> e]
Stop(f)     == [frame |-> [f EXCEPT !.pc = "dead"], res |-> "stop",
                val |-> Slice(None, None), err |-> "none"]

\* The top of `for gap_idx in whgap`, and the final yield after it.
SAGLoop(f) ==
    IF f.k <= Len(f.whgap)
    THEN Yield([f EXCEPT !.pc = "in_for"], Slice(f.prev_idx, f.whgap[f.k]))
    ELSE Yield([f EXCEPT !.pc = "last"], Slice(f.prev_idx, None))

\* Mutant: the loop forgets to move prev_idx.
SAGAdvanceStale(f) == [f EXCEPT !.k = f.k + 1]

\* prev_idx = gap_idx, then the next iteration.
SAGAdvance(f) == [f EXCEPT !.prev_idx = f.whgap[f.k], !.k = f.k + 1]

SAGNext(f) ==
    CASE f.pc = "start" ->
           IF ~GtZero(f.maxgap) THEN Raise(f, "ValueError:maxgap")
           ELSE IF AnyDecreasing(f.values) THEN Raise(f, "ValueError:order")
           ELSE SAGLoop([f EXCEPT !.whgap = WhGap(f.values, f.maxgap),
                                  !.prev_idx = None, !.k = 1])
      [] f.pc = "in_for" -> SAGLoop(SAGAdvance(f))
      [] OTHER -> Stop(f)

(***************************************************************************)
(* slice_evenly_with_gaps: a generator that iterates slice_around_gaps.    *)
(***************************************************************************)
\* Mutant: rounds the number of segments up.
NSegmentsCeil(num_elements, target_len) ==
    Min2(Max2((num_elements * target_len.den + target_len.num - 1)
                 \div target_len.num, 1),
         num_elements)

\* nsegments = int (np.floor (float (num_elements) / target_len)), then
\* max (nsegments, 1), then min (nsegments, num_elements).
NSegments(num_elements, target_len) ==
    Min2(Max2((num_elements * target_len.den) \div target_len.num, 1),
         num_elements)

\* int (round (offset)) after j additions of segment_len =
\* num_elements / nsegments (true division): Python 2's round () takes a
\* half away from zero.
RoundOffset(j, num_elements, nsegments) ==
    (2 * j * num_elements + nsegments) \div (2 * nsegments)

SEGFrame(values, target_len, maxgap) ==
    [pc |-> "start", values |-> values, target_len |-> target_len,
     maxgap |-> maxgap, l |-> 0, inner |-> SAGFrame(values, maxgap),
     start |-> 0, num_elements |-> 0, nsegments |-> 0, j |-> 0,
     prev |-> 0, next |-> 0]

\* Mutant: the segment boundary forgets the start of the run.
SEGBoundaryNoStart(f) == RoundOffset(f.j + 1, f.num_elements, f.nsegments)

\* offset += segment_len; next = start + int (round (offset))
SEGBoundary(f) ==
    f.start + RoundOffset(f.j + 1, f.num_elements, f.nsegments)

RECURSIVE SEGForGap(_)
RECURSIVE SEGForSeg(_)

\* The top of `for _ in xrange (nsegments)`.
SEGForSeg(f) ==
    IF f.j < f.nsegments
    THEN LET next == SEGBoundary(f)
         IN  IF next > f.prev
             THEN Yield([f EXCEPT !.pc = "in_seg", !.next = next],
                        Slice(f.prev, next))
             ELSE SEGForSeg([f EXCEPT !.prev = next, !.j = f.j + 1])
    ELSE SEGForGap(f)

\* The top of `for gapslice in slice_around_gaps (values, maxgap)`.
SEGForGap(f) ==
    LET r == SAGNext(f.inner)
        g == [f EXCEPT !.inner = r.frame]
    IN  CASE r.res = "raise" -> Raise(g, r.err)
          [] r.res = "stop" -> Stop(g)
          [] OTHER ->
               LET ix == SliceIndices(r.val, f.l)
                   n  == ix.stop - ix.start
                   ns == NSegments(n, f.target_len)
               IN  IF ns = 0
                   THEN Raise(g, "ZeroDivisionError")
                   ELSE SEGForSeg([g EXCEPT !.start = ix.start,
                                            !.num_elements = n,
                                            !.nsegments = ns,
                                            !.j = 0,
                                            !.prev = ix.start])

SEGNext(f) ==
    CASE f.pc = "start" ->
           IF ~TargetPositive(f.target_len)
           THEN Raise(f, "ValueError:target_len")
           ELSE SEGForGap([f EXCEPT !.l = Len(f.values)])
      [] f.pc = "in_seg" ->
           SEGForSeg([f EXCEPT !.prev = f.next, !.j = f.j + 1])
      [] OTHER -> Stop(f)

(***************************************************************************)
(* Array shapes and numpy broadcasting.  A shape is a tuple of axis        *)
(* lengths; a scalar has the shape <<>>.                                   *)
(***************************************************************************)
RECURSIVE SeqMax(_)
SeqMax(q) == IF q = <<>> THEN 0
             ELSE Max2(q[1], SeqMax(Tail(q)))

RECURSIVE SeqProd(_)
SeqProd(q) == IF q = <<>> THEN 1 ELSE q[1] * SeqProd(Tail(q))

\* The length of axis i of shape s once s is aligned, on the right, with
\* n axes: missing leading axes have length 1.
AxisLen(s, i, n) == IF i > n - Len(s) THEN s[i - (n - Len(s))] ELSE 1

\* The shape np.broadcast_arrays gives to all of its arguments.
BroadcastShape(shapes) ==
    LET n == SeqMax([k \in 1..Len(shapes) |-> Len(shapes[k])])
    IN  [i \in 1..n |->
            SeqMax([k \in 1..Len(shapes) |-> AxisLen(shapes[k], i, n)])]

\* np.broadcast_arrays raises ValueError unless every axis of every
\* argument has length 1 or the common length.
Broadcastable(shapes) ==
    LET b == BroadcastShape(shapes)
    IN  \A k \in 1..Len(shapes) : \A i \in 1..Len(b) :
            AxisLen(shapes[k], i, Len(b)) \in {1, b[i]}

\* np.atleast_1d
AtLeast1d(shape) == IF shape = <<>> THEN <<1>> ELSE shape

(***************************************************************************)
(* broadcastize: the decorator and the call of a decorated function.       *)
(* Values are followed by their shape.  The decorated body is one of       *)
(*   "same":   returns an array shaped like its array arguments,           *)
(*   "vector": returns a vector of such arrays (a new final axis holds     *)
(*             the promoted axis, as ret_spec 1 expects),                  *)
(*   "fixed":  returns a 3-vector whatever the arguments are.              *)
(***************************************************************************)
Scalar == [kind |-> "scalar", shape |-> <<>>]
Array(shape) == [kind |-> "array", shape |-> shape]
Raised(e) == [kind |-> "raise", shape |-> <<>>, err |-> e]

\* _broadcastize_spec_to_scalar_filter: does it accept the spec?
SpecRecognized(s) == s \in {None, 0, 1}

\* np.asscalar: the one element of the array, ValueError otherwise.
AsScalar(x) ==
    IF SeqProd(x.shape) = 1 THEN Scalar ELSE Raised("ValueError")

\* The filter that spec s stands for, applied to x.
ScalarRetFilter(s, x) ==
    CASE s = None -> x
      [] s = 0 -> AsScalar(x)
      [] OTHER ->
           IF x.shape = <<>> THEN Raised("IndexError")
           ELSE Array(SubSeq(x.shape, 1, Len(x.shape) - 1))

\* The decorated function's own result for promoted arguments of `shape`.
Body(kind, shape) ==
    CASE kind = "same" -> Array(shape)
      [] kind = "vector" -> Array(<<MaxDim>> \o shape)
      [] OTHER -> Array(<<3>>)

\* Mutant: demotes whenever the broadcast holds a single element.
InputsWereScalarsBySize(bc_raw) == SeqProd(bc_raw[1]) = 1

\* bc_raw[0].ndim == 0
InputsWereScalars(bc_raw) == Len(bc_raw[1]) = 0

\* _Broadcaster.__call__ on a decorator d with positional args and kwargs:
\* what the body received and what the caller gets back.
BroadcasterCall(d, args, kwargs) ==
    IF Len(args) < d.n_arr
    THEN [received |-> <<>>, kwreceived |-> None, invoked |-> FALSE,
          out |-> Raised("TypeError")]
    ELSE LET first == SubSeq(args, 1, d.n_arr)
         IN  IF ~Broadcastable(first)
             THEN [received |-> <<>>, kwreceived |-> None, invoked |-> FALSE,
                   out |-> Raised("ValueError")]
             ELSE LET bc_raw == [k \in 1..d.n_arr |-> BroadcastShape(first)]
                      bc_1d == [k \in 1..d.n_arr |-> AtLeast1d(bc_raw[k])]
                      rest == SubSeq(args, d.n_arr + 1, Len(args))
                      result == Body(d.body, bc_1d[1])
                  IN  [received |-> bc_1d \o rest, kwreceived |-> kwargs,
                       invoked |-> TRUE,
                       out |-> IF InputsWereScalars(bc_raw)
                               THEN ScalarRetFilter(d.ret_spec, result)
                               ELSE result]

(***************************************************************************)
(* Arrays with contents: a shape and the elements in C order (x.flat).     *)
(***************************************************************************)
RECURSIVE SeqSum(_)
SeqSum(q) == IF q = <<>> THEN 0 ELSE q[1] + SeqSum(Tail(q))

\* The number of elements one step along axis i of `shape` passes over.
Stride(shape, i) == SeqProd(SubSeq(shape, i + 1, Len(shape)))

\* The 0-based index tuple of the 0-based flat position p, and back.
Unravel(p, shape) ==
    [i \in 1..Len(shape) |-> (p \div Stride(shape, i)) % shape[i]]
Ravel(m, shape) ==
    SeqSum([i \in 1..Len(shape) |-> m[i] * Stride(shape, i)])

\* np.arange (size).reshape (shape)
Arange(shape) ==
    [shape |-> shape, flat |-> [p \in 1..SeqProd(shape) |-> p - 1]]

\* The view of array a broadcast to `shape`: axes of length 1 are
\* stretched, missing leading axes are added.
BroadcastTo(a, shape) ==
    [shape |-> shape,
     flat |-> [p \in 1..SeqProd(shape) |->
                 LET m == Unravel(p - 1, shape)
                     off == Len(shape) - Len(a.shape)
                     src == [d \in 1..Len(a.shape) |->
                                IF a.shape[d] = 1 THEN 0 ELSE m[off + d]]
                 IN  a.flat[Ravel(src, a.shape) + 1]]]

ShapesOf(arrs) == [k \in 1..Len(arrs) |-> arrs[k].shape]

\* np.broadcast_arrays (*arrs), for arrays that broadcast
BroadcastArrays(arrs) ==
    [k \in 1..Len(arrs) |-> BroadcastTo(arrs[k], BroadcastShape(ShapesOf(arrs)))]

\* tuple (np.atleast_1d (a) for a in bc_raw)
AtLeast1dAll(bc_raw) ==
    [k \in 1..Len(bc_raw) |->
        [shape |-> AtLeast1d(bc_raw[k].shape), flat |-> bc_raw[k].flat]]

(***************************************************************************)
(* parallel_newton and parallel_quad.  scipy's newton and quad are not of  *)
(* this library: a root, an integral and an error estimate are identified  *)
(* by the call that yields them.                                           *)
(***************************************************************************)
\* An argument that should be a tuple: par_args, simple_args.
Tuple(items) == [tuple |-> TRUE, items |-> items]
NotATuple == [tuple |-> FALSE, items |-> <<>>]

\* scipy.optimize.newton (func, x0, args=args, tol=tol, maxiter=maxiter)
Newton(x0, args, tol, maxiter) ==
    [root |-> <<x0, tol, maxiter>>, args |-> args]

\* scipy.integrate.quad (func, a, b, args): (integral, error estimate)
Quad(a, b, args) ==
    << [integral |-> <<a, b>>, args |-> args],
       [abserr |-> <<a, b>>, args |-> args] >>

\* gen_var_args: one tuple per element, in flat order.
GenVarArgs(bc_1d) ==
    [i \in 1..SeqProd(bc_1d[1].shape) |->
        [k \in 1..Len(bc_1d) |-> bc_1d[k].flat[i]]]

\* helper (i, _, var_args) of parallel_newton
NewtonHelper(var_args, simple_args) ==
    Newton(var_args[1], SubSeq(var_args, 4, Len(var_args)) \o simple_args,
           var_args[2], var_args[3])

\* helper (i, _, var_args) of parallel_quad
QuadHelper(var_args, simple_args) ==
    Quad(var_args[1], var_args[2],
         SubSeq(var_args, 3, Len(var_args)) \o simple_args)

\* The helper that parallel_newton or parallel_quad hands to ppmap.
Helper(fn, var_args, simple_args) ==
    IF fn = "parallel_newton" THEN NewtonHelper(var_args, simple_args)
    ELSE QuadHelper(var_args, simple_args)

\* ppmap (helper, None, gen_var_args ()) of pwkit.parallel: the results of
\* the helper of fn on the submitted tuples, in the order of submission.
PPMap(fn, simple_args, var_args) ==
    [i \in 1..Len(var_args) |-> Helper(fn, var_args[i], simple_args)]

ArrayOf(shape, flat) == [kind |-> "array", shape |-> shape, flat |-> flat]
ScalarOf(v) == [kind |-> "scalar", shape |-> <<>>, flat |-> <<v>>]
RaisedValue(e) == [kind |-> "raise", shape |-> <<>>, flat |-> <<>>, err |-> e]

\* np.asarray (<list of the results>): a vector, whatever shape the
\* arguments were broadcast to.
NewtonResult(result_list) == ArrayOf(<<Len(result_list)>>, result_list)

ParallelNewton(x0, tol, maxiter, par_args, simple_args) ==
    IF ~par_args.tuple \/ ~simple_args.tuple
    THEN [submitted |-> <<>>, out |-> RaisedValue("ValueError")]
    ELSE LET arrs == <<x0, tol, maxiter>> \o par_args.items
         IN  IF ~Broadcastable(ShapesOf(arrs))
             THEN [submitted |-> <<>>, out |-> RaisedValue("ValueError")]
             ELSE LET bc_raw == BroadcastArrays(arrs)
                      bc_1d == AtLeast1dAll(bc_raw)
                      var_args == GenVarArgs(bc_1d)
                      result == NewtonResult(PPMap("parallel_newton",
                                                   simple_args.items,
                                                   var_args))
                  IN  [submitted |-> var_args,
                       out |-> IF Len(bc_raw[1].shape) = 0
                               THEN ScalarOf(result.flat[1])
                               ELSE result]

\* Mutant: integrals and error estimates change places.
QuadResultSwapped(result_list, shape) ==
    ArrayOf(<<2>> \o shape,
            [q \in 1..(2 * Len(result_list)) |->
                IF q <= Len(result_list)
                THEN result_list[q][2]
                ELSE result_list[q - Len(result_list)][1]])

\* result_arr = np.empty ((2,) + shape), then for every i
\* result_arr[0].flat[i], result_arr[1].flat[i] = result_list[i]
QuadResult(result_list, shape) ==
    ArrayOf(<<2>> \o shape,
            [q \in 1..(2 * Len(result_list)) |->
                IF q <= Len(result_list)
                THEN result_list[q][1]
                ELSE result_list[q - Len(result_list)][2]])

ParallelQuad(a, b, par_args, simple_args) ==
    IF ~par_args.tuple \/ ~simple_args.tuple
    THEN [submitted |-> <<>>, out |-> RaisedValue("ValueError")]
    ELSE LET arrs == <<a, b>> \o par_args.items
         IN  IF ~Broadcastable(ShapesOf(arrs))
             THEN [submitted |-> <<>>, out |-> RaisedValue("ValueError")]
             ELSE LET bc_raw == BroadcastArrays(arrs)
                      bc_1d == AtLeast1dAll(bc_raw)
                      var_args == GenVarArgs(bc_1d)
                      result_list == PPMap("parallel_quad",
                                           simple_args.items, var_args)
                  IN  [submitted |-> var_args,
                       out |-> IF Len(bc_raw[1].shape) = 0
                               THEN ArrayOf(<<2>>, result_list[1])
                               ELSE QuadResult(result_list, bc_raw[1].shape)]

(***************************************************************************)
(* Data frames.  A frame has an index (the row labels), its columns in     *)
(* order, and one cell per row and column.  A column name is the tuple of  *)
(* the pieces it is concatenated from: 'u' + 'x' is <<"u", "x">>.  The     *)
(* numbers in the cells of the input are not followed: an aggregate is     *)
(* identified by its kind, its column and the rows it was taken over.      *)
(***************************************************************************)
Missing == [agg |-> "nan"]
Count(n) == [agg |-> "count", n |-> n]
Agg(kind, col, sd) ==
    [agg |-> kind, col |-> col, start |-> sd.start, stop |-> sd.stop]

\* df.iloc[idx] for a slice idx of a frame of nrows rows: the rows
\* [start, stop), none if stop <= start.
ILoc(idx, nrows) ==
    LET ix == SliceIndices(idx, nrows)
    IN  [start |-> ix.start, stop |-> Max2(ix.stop, ix.start)]

\* sd.shape[0]
NRows(sd) == sd.stop - sd.start

\* df.__class__ ({nchunk_colname: np.zeros (n, dtype=np.int)})
ZerosFrame(nchunk_colname, n) ==
    [index |-> [i \in 1..n |-> i - 1],
     columns |-> <<nchunk_colname>>,
     cells |-> [i \in 1..n |-> [c \in {nchunk_colname} |-> Count(0)]]]

\* chunked.loc[label,col] = v: a column that the frame lacks is created,
\* with missing values in the other rows.
SetLoc(frame, row, col, v) ==
    LET has == \E j \in 1..Len(frame.columns) : frame.columns[j] = col
        cols == IF has THEN frame.columns ELSE Append(frame.columns, col)
    IN  [frame EXCEPT
           !.columns = cols,
           !.cells = [i \in 1..Len(frame.cells) |->
                        [c \in {cols[j] : j \in 1..Len(cols)} |->
                            IF i = row /\ c = col THEN v
                            ELSE IF c \in DOMAIN frame.cells[i]
                                 THEN frame.cells[i][c]
                                 ELSE Missing]]]

uncert_prefix == <<"u">>
nchunk_colname == <<"nchunk">>

\* uncert_col_name = lambda c: uncert_prefix + c
UncertColName(c) == uncert_prefix \o c

RECURSIVE ReduceAvg(_, _, _, _)
ReduceAvg(frame, row, sd, cols) ==
    IF cols = <<>> THEN frame
    ELSE ReduceAvg(SetLoc(frame, row, cols[1], Agg("mean", cols[1], sd)),
                   row, sd, Tail(cols))

RECURSIVE ReduceUavg(_, _, _, _)
ReduceUavg(frame, row, sd, cols) ==
    IF cols = <<>> THEN frame
    ELSE LET col == cols[1]
             ucol == UncertColName(col)
             f1 == SetLoc(frame, row, col, Agg("wt_mean", col, sd))
             f2 == SetLoc(f1, row, ucol, Agg("wt_uncert", col, sd))
         IN  ReduceUavg(f2, row, sd, Tail(cols))

RECURSIVE ReduceMinMax(_, _, _, _)
ReduceMinMax(frame, row, sd, cols) ==
    IF cols = <<>> THEN frame
    ELSE LET col == cols[1]
             f1 == SetLoc(frame, row, <<"min_">> \o col, Agg("min", col, sd))
             f2 == SetLoc(f1, row, <<"max_">> \o col, Agg("max", col, sd))
         IN  ReduceMinMax(f2, row, sd, Tail(cols))

\* Mutant: keeps a chunk only if it has more than min_points_per_chunk rows.
EnoughPointsStrict(sd, min_points_per_chunk) ==
    NRows(sd) > min_points_per_chunk

\* sd.shape[0] >= min_points_per_chunk
EnoughPoints(sd, min_points_per_chunk) == NRows(sd) >= min_points_per_chunk

\* for i, subd in enumerate (subds): ..., from row i on
RECURSIVE ReduceChunks(_, _, _, _)
ReduceChunks(chunked, subds, i, p) ==
    IF i > Len(subds) THEN chunked
    ELSE LET f0 == SetLoc(chunked, i, nchunk_colname, Count(NRows(subds[i])))
             f1 == ReduceAvg(f0, i, subds[i], p.avg_cols)
             f2 == ReduceUavg(f1, i, subds[i], p.uavg_cols)
             f3 == ReduceMinMax(f2, i, subds[i], p.minmax_cols)
         IN  ReduceChunks(f3, subds, i + 1, p)

\* reduce_data_frame (df, chunk_slicers, ...) for a df of nrows rows; p
\* holds the keyword arguments.
ReduceDataFrame(nrows, chunk_slicers, p) ==
    LET all == [i \in 1..Len(chunk_slicers) |-> ILoc(chunk_slicers[i], nrows)]
        subds == SelectSeq(all, LAMBDA sd :
                                  EnoughPoints(sd, p.min_points_per_chunk))
    IN  ReduceChunks(ZerosFrame(nchunk_colname, Len(subds)), subds, 1, p)

(***************************************************************************)
(* dfsmooth.                                                               *)
(***************************************************************************)
\* The length of np.convolve (q, r, mode='valid') for non-empty q and r.
ConvValidLen(n, w) == Max2(n, w) - Min2(n, w) + 1

\* res[::k] for k >= 1: every k-th row, each with the label it had.
EveryKth(frame, k) ==
    LET n == (Len(frame.index) + k - 1) \div k
    IN  [frame EXCEPT
           !.index = [i \in 1..n |-> frame.index[(i - 1) * k + 1]],
           !.cells = [i \in 1..n |-> frame.cells[(i - 1) * k + 1]]]

\* dfsmooth (window, df, ucol, k) for a window of wsize points and a df of
\* nrows rows with the given columns.
DfSmooth(wsize, nrows, columns, ucol, k0) ==
    LET k == IF k0 = None THEN wsize ELSE k0
    IN  IF wsize = 0 \/ nrows = 0 \/ k = 0
        THEN [kind |-> "raise", err |-> "ValueError"]
        ELSE LET m == ConvValidLen(nrows, wsize)
                 res == [index |-> [i \in 1..m |-> i - 1],
                         columns |-> columns,
                         cells |-> [i \in 1..m |->
                                      [c \in {columns[j] : j \in 1..Len(columns)} |->
                                          IF c = ucol
                                          THEN [agg |-> "s_uncert", pos |-> i - 1]
                                          ELSE [agg |-> "s_data", col |-> c,
                                                pos |-> i - 1]]]]
             IN  [kind |-> "frame", frame |-> EveryKth(res, k)]

(***************************************************************************)
(* usmooth.  Numbers are exact rationals in lowest terms; a smoothed       *)
(* uncertainty sqrt (q) is kept as SqrtOf(q).                              *)
(***************************************************************************)
RECURSIVE GCD(_, _)
GCD(a, b) == IF b = 0 THEN a ELSE GCD(b, a % b)

\* n/d in lowest terms, for n >= 0 and d > 0.
RNorm(n, d) == Rat(n \div GCD(n, d), d \div GCD(n, d))
RInt(n) == Rat(n, 1)
RAdd(a, b) == RNorm(a.num * b.den + b.num * a.den, a.den * b.den)
RMul(a, b) == RNorm(a.num * b.num, a.den * b.den)
RDiv(a, b) == RNorm(a.num * b.den, a.den * b.num)

SqrtOf(q) == [sqrt_of |-> q]

RECURSIVE RSum(_)
RSum(q) == IF q = <<>> THEN RInt(0) ELSE RAdd(q[1], RSum(Tail(q)))

\* np.convolve (a, v, mode='valid') of two non-empty series: the longer one
\* is a, and out[n] is the sum of a[m] * v[n - m] over the positions where
\* v lies wholly inside a.
ConvolveValid(q, r) ==
    LET a == IF Len(r) > Len(q) THEN r ELSE q
        v == IF Len(r) > Len(q) THEN q ELSE r
    IN  [i \in 1..(Len(a) - Len(v) + 1) |->
            RSum([j \in 1..Len(v) |-> RMul(a[i + j - 1], v[Len(v) - j + 1])])]

\* x[::k] of a series, k >= 1
EveryKthOf(x, k) ==
    [i \in 1..((Len(x) + k - 1) \div k) |-> x[(i - 1) * k + 1]]

\* Mutant: without a k, every point is kept.
USmoothStrideKeepAll(k0, window) == IF k0 = None THEN 1 ELSE k0

\* k = kwargs.pop ('k', None); if k is None: k = window.size
USmoothStride(k0, window) == IF k0 = None THEN Len(window) ELSE k0

\* usmooth (window, uncerts, *data, **kwargs): window, uncerts and the data
\* are series of rationals; kw_k is the k keyword (None if absent) and
\* kw_other tells whether another keyword was passed.
USmooth(window, uncerts, data, kw_k, kw_other) ==
    IF kw_other THEN [kind |-> "raise", err |-> "TypeError"]
    ELSE IF window = <<>> \/ uncerts = <<>>
    THEN [kind |-> "raise", err |-> "ValueError"]
    ELSE LET k == USmoothStride(kw_k, window)
             w == [i \in 1..Len(uncerts) |->
                      RDiv(RInt(1), RMul(uncerts[i], uncerts[i]))]
             cw == ConvolveValid(w, window)
             window2 == [j \in 1..Len(window) |-> RMul(window[j], window[j])]
             cw2 == ConvolveValid(w, window2)
             cu == [i \in 1..Len(cw) |->
                      SqrtOf(RDiv(cw2[i], RMul(cw[i], cw[i])))]
             sm(x) == LET wx == ConvolveValid(
                                  [i \in 1..Len(x) |-> RMul(w[i], x[i])],
                                  window)
                      IN  [i \in 1..Len(cw) |-> RDiv(wx[i], cw[i])]
             result == <<cu>> \o [d \in 1..Len(data) |-> sm(data[d])]
         IN  IF k = 1 THEN [kind |-> "list", items |-> result]
             ELSE IF k = 0 THEN [kind |-> "raise", err |-> "ValueError"]
             ELSE [kind |-> "list",
                   items |-> [d \in 1..Len(result) |->
                                 EveryKthOf(result[d], k)]]

(***************************************************************************)
(* Tophat and step functions.  A float is Fin(q) for a rational q,         *)
(* FloatNaN, FloatInf or FloatNegInf.                                      *)
(***************************************************************************)
Fin(q) == [kind |-> "num", v |-> q]
FloatNaN == [kind |-> "nan", v |-> Rat(0, 1)]
FloatInf == [kind |-> "inf", v |-> Rat(0, 1)]
FloatNegInf == [kind |-> "-inf", v |-> Rat(0, 1)]

\* np.isfinite
IsFinite(a) == a.kind = "num"

\* a < b of two floats: False when either is NaN.
Lt(a, b) ==
    /\ a.kind # "nan" /\ b.kind # "nan"
    /\ \/ a.kind = "-inf" /\ b.kind # "-inf"
       \/ a.kind = "num" /\ b.kind = "inf"
       \/ /\ a.kind = "num" /\ b.kind = "num"
          /\ a.v.num * b.v.den < b.v.num * a.v.den

\* a <= b of two floats: False when either is NaN.
Le(a, b) ==
    /\ a.kind # "nan" /\ b.kind # "nan"
    /\ \/ a.kind = b.kind /\ a.kind # "num"
       \/ a.kind = "-inf"
       \/ b.kind = "inf"
       \/ /\ a.kind = "num" /\ b.kind = "num"
          /\ a.v.num * b.v.den <= b.v.num * a.v.den

\* An argument x: a 0-dimensional value or a vector of floats.
XScalar(v) == [ndim |-> 0, items |-> <<v>>]
XVector(q) == [ndim |-> 1, items |-> q]

TophatFactories ==
    {"make_tophat_ee", "make_tophat_ei", "make_tophat_ie", "make_tophat_ii"}
StepFactories == {"make_step_lcont", "make_step_rcont"}

\* make_tophat_* (lower, upper), make_step_* (transition): args holds the
\* arguments; the result is the closure over them or a ValueError.
MakeClosure(fn, args) ==
    IF \E i \in 1..Len(args) : ~IsFinite(args[i])
    THEN [kind |-> "raise", err |-> "ValueError"]
    ELSE [kind |-> "closure", fn |-> fn, args |-> args]

\* Mutant: the tophat with exclusive bounds takes its upper bound in.
ComparisonUpperIn(c, v) ==
    CASE c.fn = "make_tophat_ee" -> Lt(c.args[1], v) /\ Le(v, c.args[2])
      [] c.fn = "make_tophat_ei" -> Lt(c.args[1], v) /\ Le(v, c.args[2])
      [] c.fn = "make_tophat_ie" -> Le(c.args[1], v) /\ Lt(v, c.args[2])
      [] c.fn = "make_tophat_ii" -> Le(c.args[1], v) /\ Le(v, c.args[2])
      [] c.fn = "make_step_lcont" -> Lt(c.args[1], v)
      [] c.fn = "make_step_rcont" -> Le(c.args[1], v)

\* The comparison of each closure, for one element v of x1.
Comparison(c, v) ==
    CASE c.fn = "make_tophat_ee" -> Lt(c.args[1], v) /\ Lt(v, c.args[2])
      [] c.fn = "make_tophat_ei" -> Lt(c.args[1], v) /\ Le(v, c.args[2])
      [] c.fn = "make_tophat_ie" -> Le(c.args[1], v) /\ Lt(v, c.args[2])
      [] c.fn = "make_tophat_ii" -> Le(c.args[1], v) /\ Le(v, c.args[2])
      [] c.fn = "make_step_lcont" -> Lt(c.args[1], v)
      [] c.fn = "make_step_rcont" -> Le(c.args[1], v)

\* astype (x.dtype) of a truth value
AsType(b) == IF b THEN 1 ELSE 0

\* The closure c applied to x: r = (comparison of x1).astype (x.dtype),
\* demoted with np.asscalar when x.ndim == 0.
ClosureCall(c, x) ==
    LET x1 == x.items
        r == [i \in 1..Len(x1) |-> AsType(Comparison(c, x1[i]))]
    IN  IF x.ndim = 0 THEN [kind |-> "scalar", v |-> r[1]]
        ELSE [kind |-> "array", items |-> r]

(***************************************************************************)
(* State.                                                                  *)
(***************************************************************************)
VARIABLES
    gen,     \* the generator object the client holds, if any
    call     \* the other call the client made, and what came of it

vars == <<gen, call>>

NoCall == [fn |-> "none"]

NoGen == [fn |-> "none", status |-> "none", frame |-> SAGFrame(<<>>, NaN),
          yielded |-> <<>>, err |-> "none"]

RECURSIVE SeqsUpTo(_, _)
SeqsUpTo(S, n) ==
    IF n = 0 THEN {<<>>}
    ELSE LET shorter == SeqsUpTo(S, n - 1)
         IN  shorter \cup {Append(s, x) : s \in {t \in shorter : Len(t) = n - 1},
                                           x \in S}

\* The array that starts at 0 and has the adjacent differences d.
RECURSIVE FromDeltas(_)
FromDeltas(d) ==
    IF d = <<>> THEN <<0>>
    ELSE LET v == FromDeltas(SubSeq(d, 1, Len(d) - 1))
         IN  Append(v, v[Len(v)] + d[Len(d)])

\* Arrays of up to MaxLen values: the empty one, and every array from 0
\* whose adjacent differences are in -1..MaxDelta (the slicers read only
\* the differences).
ValuesIn ==
    {<<>>} \cup {FromDeltas(d) : d \in SeqsUpTo((-1)..MaxDelta, MaxLen - 1)}
MaxGapsIn == {Num(v) : v \in (-1)..MaxGap} \cup {NaN, Inf}
TargetLensIn == {Rat(n, 2) : n \in 0..MaxTarget}

\* Shapes of up to MaxNDim axes of 1..MaxDim elements.
ShapesIn == SeqsUpTo(1..MaxDim, MaxNDim)
ArgShapesIn == SeqsUpTo(1..MaxDim, MaxArgNDim)

Init == gen = NoGen /\ call = NoCall

\* The client has made no call yet.
Idle == gen.fn = "none" /\ call.fn = "none"

\* gen = slice_around_gaps (values, maxgap): nothing of the body runs.
CallSliceAroundGaps ==
    /\ Idle
    /\ \E values \in ValuesIn, maxgap \in MaxGapsIn :
        gen' = [fn |-> "slice_around_gaps", status |-> "created",
                frame |-> SAGFrame(values, maxgap),
                yielded |-> <<>>, err |-> "none"]
    /\ UNCHANGED call

\* gen = slice_evenly_with_gaps (values, target_len, maxgap)
CallSliceEvenlyWithGaps ==
    /\ Idle
    /\ \E values \in ValuesIn, target_len \in TargetLensIn, maxgap \in MaxGapsIn :
        gen' = [fn |-> "slice_evenly_with_gaps", status |-> "created",
                frame |-> SEGFrame(values, target_len, maxgap),
                yielded |-> <<>>, err |-> "none"]
    /\ UNCHANGED call

\* next (gen)
GenStep(r) ==
    gen' = [gen EXCEPT
              !.frame = r.frame,
              !.status = CASE r.res = "yield" -> "suspended"
                           [] r.res = "raise" -> "raised"
                           [] OTHER -> "done",
              !.yielded = IF r.res = "yield" THEN Append(@, r.val) ELSE @,
              !.err = r.err]

NextSliceAroundGaps ==
    /\ gen.fn = "slice_around_gaps"
    /\ gen.status \in {"created", "suspended"}
    /\ GenStep(SAGNext(gen.frame))
    /\ UNCHANGED call

NextSliceEvenlyWithGaps ==
    /\ gen.fn = "slice_evenly_with_gaps"
    /\ gen.status \in {"created", "suspended"}
    /\ GenStep(SEGNext(gen.frame))
    /\ UNCHANGED call

\* f = broadcastize (n_arr, ret_spec) (body): _BroadcasterDecorator.__init__
\* raises for n_arr < 1 and for a ret_spec it does not recognize.
Broadcastize ==
    /\ Idle
    /\ \E n_arr \in 0..MaxNArr, ret_spec \in {None, 0, 1, 2},
          body \in {"same", "vector", "fixed"} :
        call' = [fn |-> "broadcastize", n_arr |-> n_arr,
                 ret_spec |-> ret_spec, body |-> body,
                 stage |-> IF n_arr < 1 \/ ~SpecRecognized(ret_spec)
                           THEN "raised" ELSE "decorated"]
    /\ UNCHANGED gen

\* f (*args, **kwargs) for the decorated f
CallBroadcaster ==
    /\ call.fn = "broadcastize"
    /\ call.stage = "decorated"
    /\ \E args \in SeqsUpTo(ArgShapesIn, MaxArgs), kwargs \in {0, 1} :
        LET r == BroadcasterCall(call, args, kwargs)
        IN  call' = [fn |-> "broadcaster", n_arr |-> call.n_arr,
                     ret_spec |-> call.ret_spec, body |-> call.body,
                     args |-> args, kwargs |-> kwargs,
                     received |-> r.received, kwreceived |-> r.kwreceived,
                     invoked |-> r.invoked, out |-> r.out]
    /\ UNCHANGED gen

\* np.arange arrays of every shape: all elements of one array differ.
ArraysIn == {Arange(shape) : shape \in ShapesIn}

\* A few arrays that stretch along one axis or the other.
FewArraysIn == {Arange(<<>>), Arange(<<MaxDim>>), Arange(<<MaxDim, 1>>)}

ParArgsIn ==
    {NotATuple, Tuple(<<>>), Tuple(<<Arange(<<MaxDim>>)>>),
     Tuple(<<Arange(<<MaxDim, 1>>)>>)}
SimpleArgsIn == {NotATuple, Tuple(<<>>), Tuple(<<7>>)}

\* parallel_newton (func, x0, par_args=..., simple_args=..., tol=...,
\*                  maxiter=...)
CallParallelNewton ==
    /\ Idle
    /\ \E x0 \in ArraysIn, tol \in {Arange(<<>>), Arange(<<MaxDim>>)},
          maxiter \in {Arange(<<>>), Arange(<<1>>)},
          par_args \in ParArgsIn, simple_args \in SimpleArgsIn :
        LET r == ParallelNewton(x0, tol, maxiter, par_args, simple_args)
        IN  call' = [fn |-> "parallel_newton",
                     arrs |-> <<x0, tol, maxiter>> \o par_args.items,
                     par_args |-> par_args, simple_args |-> simple_args,
                     submitted |-> r.submitted, out |-> r.out]
    /\ UNCHANGED gen

\* parallel_quad (func, a, b, par_args, simple_args)
CallParallelQuad ==
    /\ Idle
    /\ \E a \in ArraysIn, b \in FewArraysIn,
          par_args \in ParArgsIn, simple_args \in SimpleArgsIn :
        LET r == ParallelQuad(a, b, par_args, simple_args)
        IN  call' = [fn |-> "parallel_quad",
                     arrs |-> <<a, b>> \o par_args.items,
                     par_args |-> par_args, simple_args |-> simple_args,
                     submitted |-> r.submitted, out |-> r.out]
    /\ UNCHANGED gen

\* Slices into a frame of nrows rows.
SlicesIn(nrows) ==
    {Slice(a, b) : a \in {None} \cup 0..(nrows - 1),
                   b \in {None} \cup 1..nrows}

ReduceParamsIn ==
    {[avg_cols |-> a, uavg_cols |-> u, minmax_cols |-> m,
      min_points_per_chunk |-> n] :
        a \in {<<>>, << <<"t">> >>}, u \in {<<>>, << <<"x">> >>},
        m \in {<<>>, << <<"t">> >>}, n \in {1, 3}}

\* reduce_data_frame (df, chunk_slicers, avg_cols=..., ...)
CallReduceDataFrame ==
    /\ Idle
    /\ \E nrows \in 0..MaxRows, p \in ReduceParamsIn :
        \E chunk_slicers \in SeqsUpTo(SlicesIn(nrows), MaxChunks) :
            call' = [fn |-> "reduce_data_frame", nrows |-> nrows,
                     chunk_slicers |-> chunk_slicers, params |-> p,
                     out |-> ReduceDataFrame(nrows, chunk_slicers, p)]
    /\ UNCHANGED gen

\* dfsmooth (window, df, ucol, k)
CallDfSmooth ==
    /\ Idle
    /\ \E wsize \in 0..MaxWindow, nrows \in 0..MaxRows,
          k \in {None} \cup 0..MaxStride, labels \in {"default", "dates"} :
        call' = [fn |-> "dfsmooth", wsize |-> wsize, nrows |-> nrows,
                 k |-> k, labels |-> labels,
                 out |-> DfSmooth(wsize, nrows, << <<"t">>, <<"u">> >>,
                                  <<"u">>, k)]
    /\ UNCHANGED gen

\* Series of n points: 1, 2, ..., n and 1, 1, ..., 1 and 1, 2, 1, 2, ...
Ramp(n) == [i \in 1..n |-> RInt(i)]
Ones(n) == [i \in 1..n |-> RInt(1)]
OnesTwos(n) == [i \in 1..n |-> RInt(2 - (i % 2))]

\* usmooth (window, uncerts, *data, k=...)
CallUSmooth ==
    /\ Idle
    /\ \E window \in SeqsUpTo({RInt(1), RInt(2)}, MaxWindow),
          n \in 0..MaxData, kw_k \in {None} \cup 0..MaxStride,
          kw_other \in BOOLEAN :
        \E uncerts \in {Ones(n), OnesTwos(n)},
           data \in SeqsUpTo({Ramp(n), Ones(n)}, 2) :
            call' = [fn |-> "usmooth", window |-> window,
                     uncerts |-> uncerts, data |-> data, k |-> kw_k,
                     kw_other |-> kw_other,
                     out |-> USmooth(window, uncerts, data, kw_k, kw_other)]
    /\ UNCHANGED gen

\* Bounds and transitions: 0, 1/2, 1, 5, NaN and the infinities.
EdgesIn == {Fin(RInt(0)), Fin(Rat(1, 2)), Fin(RInt(1)), Fin(RInt(5)),
            FloatNaN, FloatInf, FloatNegInf}

\* The points -0.1, 0, 0.5, 1, 1.1, 4, 5, ..., MaxX in ascending order.
Grid == <<Fin(Rat(-1, 10)), Fin(RInt(0)), Fin(Rat(1, 2)), Fin(RInt(1)),
          Fin(Rat(11, 10))>> \o [i \in 1..(MaxX - 3) |-> Fin(RInt(i + 3))]

RECURSIVE Selection(_, _)
Selection(q, S) ==
    IF q = <<>> THEN <<>>
    ELSE IF Len(q) \in S THEN Append(Selection(SubSeq(q, 1, Len(q) - 1), S),
                                     q[Len(q)])
    ELSE Selection(SubSeq(q, 1, Len(q) - 1), S)

\* x: a scalar, an ascending selection of the grid, or the non-finite vector.
XsIn ==
    {XScalar(v) : v \in {Grid[i] : i \in 1..Len(Grid)}
                      \cup {FloatNaN, FloatInf, FloatNegInf}}
    \cup {XVector(Selection(Grid, S)) : S \in SUBSET (1..Len(Grid))}
    \cup {XVector(<<FloatNegInf, FloatNaN, FloatInf>>)}

\* f = make_tophat_ee (lower, upper) and the three others
MakeTophat ==
    /\ Idle
    /\ \E fn \in TophatFactories, lower \in EdgesIn, upper \in EdgesIn :
        call' = [fn |-> fn, args |-> <<lower, upper>>, called |-> FALSE,
                 made |-> MakeClosure(fn, <<lower, upper>>)]
    /\ UNCHANGED gen

\* f = make_step_lcont (transition), f = make_step_rcont (transition)
MakeStep ==
    /\ Idle
    /\ \E fn \in StepFactories, transition \in EdgesIn :
        call' = [fn |-> fn, args |-> <<transition>>, called |-> FALSE,
                 made |-> MakeClosure(fn, <<transition>>)]
    /\ UNCHANGED gen

\* f (x) for a closure f made by one of the factories
CallClosure ==
    /\ call.fn \in TophatFactories \cup StepFactories
    /\ ~call.called
    /\ call.made.kind = "closure"
    /\ \E x \in XsIn :
        call' = [fn |-> call.fn, args |-> call.args, called |-> TRUE,
                 made |-> call.made, x |-> x,
                 out |-> ClosureCall(call.made, x)]
    /\ UNCHANGED gen

\* The slicers.
NextSlicers ==
    \/ CallSliceAroundGaps
    \/ CallSliceEvenlyWithGaps
    \/ NextSliceAroundGaps
    \/ NextSliceEvenlyWithGaps

SpecSlicers == Init /\ [][NextSlicers]_vars

\* The broadcasting decorator.
NextBroadcast ==
    \/ Broadcastize
    \/ CallBroadcaster

SpecBroadcast == Init /\ [][NextBroadcast]_vars

\* The parallel wrappers.
NextParallel ==
    \/ CallParallelNewton
    \/ CallParallelQuad

SpecParallel == Init /\ [][NextParallel]_vars

\* The data-frame functions.
NextFrames ==
    \/ CallReduceDataFrame
    \/ CallDfSmooth

SpecFrames == Init /\ [][NextFrames]_vars

\* The smoother of plain series.  It is one function; the second disjunct
\* is its failure on a keyword it does not know.
NextSmooth ==
    \/ CallUSmooth /\ call'.out.kind = "list"
    \/ CallUSmooth /\ call'.out.kind = "raise"

SpecSmooth == Init /\ [][NextSmooth]_vars

\* The tophat and step functions.
NextPiecewise ==
    \/ MakeTophat
    \/ MakeStep
    \/ CallClosure

SpecPiecewise == Init /\ [][NextPiecewise]_vars

(***************************************************************************)
(* Vocabulary of the properties.                                           *)
(***************************************************************************)
Nondecreasing(values) ==
    \A j \in 1..(Len(values) - 1) : values[j] <= values[j + 1]

\* values[j] (0-based) - values[j-1] > maxgap
GapBefore(values, j, maxgap) ==
    maxgap.kind = "num" /\ values[j + 1] - values[j] > maxgap.v

\* The 0-based positions j with a gap between j-1 and j.
GapPositions(values, maxgap) ==
    {j \in 1..(Len(values) - 1) : GapBefore(values, j, maxgap)}

SetMax(S) == CHOOSE x \in S : \A y \in S : y <= x
SetMin(S) == CHOOSE x \in S : \A y \in S : x <= y

\* The gap-free run that holds position a is [RunLo, RunHi).
RunLo(values, maxgap, a) ==
    SetMax({0} \cup {g \in GapPositions(values, maxgap) : g <= a})
RunHi(values, maxgap, a) ==
    SetMin({Len(values)} \cup {g \in GapPositions(values, maxgap) : g > a})

\* The slices yielded so far, as index ranges of the array.
YieldedRanges ==
    [i \in 1..Len(gen.yielded) |->
        SliceIndices(gen.yielded[i], Len(gen.frame.values))]

AroundGapsValid ==
    /\ gen.fn = "slice_around_gaps"
    /\ Nondecreasing(gen.frame.values)
    /\ gen.frame.maxgap.kind # "nan"
    /\ gen.frame.maxgap.kind = "num" => gen.frame.maxgap.v > 0

EvenlyValid ==
    /\ gen.fn = "slice_evenly_with_gaps"
    /\ Nondecreasing(gen.frame.values)
    /\ gen.frame.target_len.num > 0
    /\ gen.frame.maxgap.kind # "nan"
    /\ gen.frame.maxgap.kind = "num" => gen.frame.maxgap.v > 0

(***************************************************************************)
(* C1: for nondecreasing values of any length and maxgap > 0, the slices   *)
(* of slice_around_gaps, in yield order, are contiguous: the first starts  *)
(* at 0, each next one starts where the previous one stopped, and once the *)
(* generator is exhausted the last one stops at the length.                *)
(***************************************************************************)
C1_SlicesCoverRange ==
    AroundGapsValid =>
        LET r == YieldedRanges
            l == Len(gen.frame.values)
        IN  /\ gen.status # "raised"
            /\ \A i \in 1..Len(r) :
                  /\ r[i].start = (IF i = 1 THEN 0 ELSE r[i - 1].stop)
                  /\ r[i].start <= r[i].stop
                  /\ r[i].stop <= l
            /\ gen.status = "done" => Len(r) >= 1 /\ r[Len(r)].stop = l

C1_Witness ==
    /\ AroundGapsValid
    /\ gen.status = "done"
    /\ Len(gen.yielded) = 3
    /\ Len(gen.frame.values) = MaxLen

(***************************************************************************)
(* C2: slice_around_gaps splits between positions j-1 and j exactly when   *)
(* values[j] - values[j-1] > maxgap: no adjacent difference inside a slice *)
(* exceeds maxgap, the elements on either side of a boundary differ by     *)
(* more than maxgap, and an exhausted generator has split at every such    *)
(* position.                                                               *)
(***************************************************************************)
C2_SplitExactlyAtGaps ==
    AroundGapsValid =>
        LET r == YieldedRanges
            values == gen.frame.values
            maxgap == gen.frame.maxgap
        IN  /\ \A i \in 1..Len(r) : \A j \in (r[i].start + 1)..(r[i].stop - 1) :
                  ~GapBefore(values, j, maxgap)
            /\ \A i \in 1..(Len(r) - 1) : GapBefore(values, r[i].stop, maxgap)
            /\ gen.status = "done" =>
                  {r[i].stop : i \in 1..(Len(r) - 1)}
                      = GapPositions(values, maxgap)

C2_Witness ==
    /\ AroundGapsValid
    /\ gen.status = "done"
    /\ Len(gen.yielded) = 2
    /\ gen.frame.maxgap = Num(1)
    /\ \E j \in 1..(Len(gen.frame.values) - 1) :
          gen.frame.values[j + 1] - gen.frame.values[j] = 1

(***************************************************************************)
(* C3: for nondecreasing values, target_len > 0 and maxgap > 0, the slices *)
(* of slice_evenly_with_gaps are non-empty, ascending and non-overlapping, *)
(* none of them spans a gap larger than maxgap, and once the generator has *)
(* finished every index of the array lies in one of them.                  *)
(***************************************************************************)
C3_EvenSlicesTraverseWithinRuns ==
    EvenlyValid =>
        LET r == YieldedRanges
            values == gen.frame.values
            l == Len(values)
        IN  /\ l > 0 => gen.status # "raised"
            /\ \A i \in 1..Len(r) :
                  /\ 0 <= r[i].start /\ r[i].start < r[i].stop /\ r[i].stop <= l
                  /\ gen.yielded[i] = r[i]
                  /\ \A j \in (r[i].start + 1)..(r[i].stop - 1) :
                        ~GapBefore(values, j, gen.frame.maxgap)
            /\ \A i \in 1..(Len(r) - 1) : r[i].stop <= r[i + 1].start
            /\ gen.status \in {"done", "raised"} =>
                  \A x \in 0..(l - 1) :
                      \E i \in 1..Len(r) : r[i].start <= x /\ x < r[i].stop

C3_Witness ==
    /\ EvenlyValid
    /\ gen.status = "done"
    /\ Len(gen.yielded) >= 3
    /\ GapPositions(gen.frame.values, gen.frame.maxgap) # {}
    /\ \E i \in 1..(Len(gen.yielded) - 1) :
          ~GapBefore(gen.frame.values, gen.yielded[i].stop, gen.frame.maxgap)

(***************************************************************************)
(* C4: slice_evenly_with_gaps errs toward larger slices.  For an integer   *)
(* target_len >= 1, a slice yielded from a run of at least target_len      *)
(* elements holds at least target_len elements, and a slice yielded from a *)
(* shorter run is the whole run.                                           *)
(***************************************************************************)
IntegerTarget(t) == t.num > 0 /\ t.num % t.den = 0

C4_SlicesNotShorterThanTarget ==
    (EvenlyValid /\ IntegerTarget(gen.frame.target_len)) =>
        LET r == YieldedRanges
            values == gen.frame.values
            maxgap == gen.frame.maxgap
            t == gen.frame.target_len.num \div gen.frame.target_len.den
        IN  \A i \in 1..Len(r) :
               LET lo == RunLo(values, maxgap, r[i].start)
                   hi == RunHi(values, maxgap, r[i].start)
               IN  IF hi - lo >= t
                   THEN r[i].stop - r[i].start >= t
                   ELSE r[i].start = lo /\ r[i].stop = hi

C4_Witness ==
    /\ EvenlyValid
    /\ gen.frame.target_len = Rat(4, 2)
    /\ gen.status = "done"
    /\ \E i \in 1..Len(gen.yielded) :
          gen.yielded[i].stop - gen.yielded[i].start = 3
    /\ \E i \in 1..Len(gen.yielded) :
          gen.yielded[i].stop - gen.yielded[i].start = 1
    /\ Len(gen.yielded) = 3

(***************************************************************************)
(* C5: a function decorated with broadcastize (n_arr) and ret_spec 0 whose *)
(* body returns an array shaped like its promoted arguments gives a scalar *)
(* when the first n_arr arguments are all scalars and an array of their    *)
(* common broadcast shape when one of them is an array; the body receives  *)
(* n_arr arrays of one same shape of at least one axis, then the other     *)
(* positional arguments and the keyword arguments as they were passed.     *)
(***************************************************************************)
C5_ScalarInScalarOut ==
    (/\ call.fn = "broadcaster"
     /\ call.ret_spec = 0
     /\ call.body = "same"
     /\ Len(call.args) >= call.n_arr
     /\ Broadcastable(SubSeq(call.args, 1, call.n_arr))) =>
        LET n == call.n_arr
            common == BroadcastShape(SubSeq(call.args, 1, n))
        IN  /\ (\A k \in 1..n : call.args[k] = <<>>) => call.out = Scalar
            /\ (\E k \in 1..n : call.args[k] # <<>>) =>
                   call.out = Array(common)
            /\ call.invoked
            /\ Len(call.received) = Len(call.args)
            /\ \A k \in 1..n :
                  /\ Len(call.received[k]) >= 1
                  /\ call.received[k] = call.received[1]
            /\ \A k \in (n + 1)..Len(call.args) :
                  call.received[k] = call.args[k]
            /\ call.kwreceived = call.kwargs

C5_Witness ==
    /\ call.fn = "broadcaster"
    /\ call.ret_spec = 0
    /\ call.body = "same"
    /\ call.n_arr = 2
    /\ call.args = <<<<1>>, <<>>>>
    /\ call.out = Array(<<1>>)

\* A parallel_* call whose arguments pass validation and broadcast.
ParallelValid(fn) ==
    /\ call.fn = fn
    /\ call.par_args.tuple
    /\ call.simple_args.tuple
    /\ Broadcastable(ShapesOf(call.arrs))

\* The common broadcast shape of the per-call parameters.
CommonShape == BroadcastShape(ShapesOf(call.arrs))

\* The value of parameter k at the 0-based flat position p of the common
\* shape.
ParamAt(k, p) == BroadcastTo(call.arrs[k], CommonShape).flat[p + 1]

(***************************************************************************)
(* C6: parallel_newton returns an array of the common broadcast shape of   *)
(* x0, tol, maxiter and the items of par_args, of any number of axes, its  *)
(* element at each position being the root for the parameters at that      *)
(* position; for all-scalar inputs it returns the one root as a scalar.    *)
(***************************************************************************)
C6_NewtonResultHasBroadcastShape ==
    ParallelValid("parallel_newton") =>
        LET root(p) ==
                Newton(ParamAt(1, p),
                       [k \in 1..(Len(call.arrs) - 3) |-> ParamAt(k + 3, p)]
                           \o call.simple_args.items,
                       ParamAt(2, p), ParamAt(3, p))
        IN  IF CommonShape = <<>>
            THEN call.out = ScalarOf(root(0))
            ELSE /\ call.out.kind = "array"
                 /\ call.out.shape = CommonShape
                 /\ \A p \in 0..(SeqProd(CommonShape) - 1) :
                       call.out.flat[p + 1] = root(p)

(***************************************************************************)
(* C7: parallel_quad integrates once per element of the common broadcast   *)
(* shape S of a, b and the items of par_args and returns an array of shape *)
(* (2,)+S: [0] holds at each position the integral and [1] the error       *)
(* estimate of the call built from the parameters at that position, with   *)
(* simple_args appended; for all-scalar inputs the shape is (2,).          *)
(***************************************************************************)
C7_QuadResultByPosition ==
    ParallelValid("parallel_quad") =>
        LET size == SeqProd(CommonShape)
            quad(p) ==
                Quad(ParamAt(1, p), ParamAt(2, p),
                     [k \in 1..(Len(call.arrs) - 2) |-> ParamAt(k + 2, p)]
                         \o call.simple_args.items)
        IN  /\ Len(call.submitted) = size
            /\ call.out.kind = "array"
            /\ call.out.shape = <<2>> \o CommonShape
            /\ \A p \in 0..(size - 1) :
                  /\ call.out.flat[Ravel(<<0>> \o Unravel(p, CommonShape),
                                         call.out.shape) + 1] = quad(p)[1]
                  /\ call.out.flat[Ravel(<<1>> \o Unravel(p, CommonShape),
                                         call.out.shape) + 1] = quad(p)[2]

C7_Witness ==
    /\ ParallelValid("parallel_quad")
    /\ CommonShape = <<MaxDim, MaxDim>>
    /\ call.arrs[1].shape = <<MaxDim>>
    /\ call.arrs[2].shape = <<MaxDim, 1>>
    /\ Len(call.arrs) = 3
    /\ call.simple_args = Tuple(<<7>>)

\* The row count of the rows that slice s takes from nrows rows.
SliceRowCount(s, nrows) ==
    LET lo == IF s.start = None THEN 0 ELSE Min2(s.start, nrows)
        hi == IF s.stop = None THEN nrows ELSE Min2(s.stop, nrows)
    IN  IF hi > lo THEN hi - lo ELSE 0

\* The row counts, in order, of the slices that have at least n rows.
RECURSIVE KeptCounts(_, _, _)
KeptCounts(slicers, nrows, n) ==
    IF slicers = <<>> THEN <<>>
    ELSE LET c == SliceRowCount(slicers[1], nrows)
             rest == KeptCounts(Tail(slicers), nrows, n)
         IN  IF c >= n THEN <<c>> \o rest ELSE rest

SeqToSet(q) == {q[i] : i \in 1..Len(q)}

(***************************************************************************)
(* C8: reduce_data_frame returns one row for each supplied slice of at     *)
(* least min_points_per_chunk rows, in the order of the slices, and none   *)
(* for the others; the chunk-count column of a row is the row count of its *)
(* chunk, hence at least min_points_per_chunk.                             *)
(***************************************************************************)
C8_OneRowPerSurvivingChunk ==
    call.fn = "reduce_data_frame" =>
        LET kept == KeptCounts(call.chunk_slicers, call.nrows,
                               call.params.min_points_per_chunk)
            out == call.out
        IN  /\ Len(out.cells) = Len(kept)
            /\ Len(out.index) = Len(kept)
            /\ \A i \in 1..Len(kept) :
                  /\ out.cells[i][nchunk_colname] = Count(kept[i])
                  /\ kept[i] >= call.params.min_points_per_chunk

C8_Witness ==
    /\ call.fn = "reduce_data_frame"
    /\ call.params.min_points_per_chunk = 3
    /\ Len(call.chunk_slicers) = MaxChunks
    /\ SliceRowCount(call.chunk_slicers[1], call.nrows) = 2
    /\ SliceRowCount(call.chunk_slicers[2], call.nrows) = 3
    /\ Len(call.out.cells) = 1

(***************************************************************************)
(* C9: reduce_data_frame does not raise for an empty chunk list or when    *)
(* every chunk is too short, and its zero-row result has the columns of a  *)
(* result with rows: the chunk count, every avg_cols entry, a value and an *)
(* uncertainty column per uavg_cols entry, min_<col> and max_<col> per     *)
(* minmax_cols entry.                                                      *)
(***************************************************************************)
C9_EmptyResultHasAllColumns ==
    call.fn = "reduce_data_frame" =>
        LET p == call.params
        IN  SeqToSet(call.out.columns) =
                {nchunk_colname}
                    \cup SeqToSet(p.avg_cols)
                    \cup SeqToSet(p.uavg_cols)
                    \cup {<<"u">> \o c : c \in SeqToSet(p.uavg_cols)}
                    \cup {<<"min_">> \o c : c \in SeqToSet(p.minmax_cols)}
                    \cup {<<"max_">> \o c : c \in SeqToSet(p.minmax_cols)}

(***************************************************************************)
(* C10: the frame dfsmooth returns has the default row index 0, 1, ...,    *)
(* rows-1 for every stride k, whatever the labels of the input rows.       *)
(***************************************************************************)
C10_SmoothedIndexIsDefault ==
    (call.fn = "dfsmooth" /\ call.out.kind = "frame") =>
        call.out.frame.index =
            [i \in 1..Len(call.out.frame.cells) |-> i - 1]

\* usmooth (np.ones (3), np.ones (5), [1,2,3,4,5], k=k) with no other
\* keyword.
USmoothExample(k) ==
    /\ call.fn = "usmooth"
    /\ call.window = Ones(3)
    /\ call.uncerts = Ones(5)
    /\ call.data = <<Ramp(5)>>
    /\ call.k = k
    /\ ~call.kw_other

ThirdRoot == SqrtOf(Rat(1, 3))

(***************************************************************************)
(* C11, as claimed: usmooth with a window of three ones, uncertainties all *)
(* 1, the single series [1,2,3,4,5] and no other argument returns the      *)
(* uncertainties first, sqrt (1/3) at each of 3 points, and then the       *)
(* moving average [2,3,4].                                                 *)
(***************************************************************************)
C11_DefaultKeepsEveryPoint ==
    USmoothExample(None) =>
        /\ call.out.kind = "list"
        /\ call.out.items =
              << <<ThirdRoot, ThirdRoot, ThirdRoot>>,
                 <<RInt(2), RInt(3), RInt(4)>> >>

(***************************************************************************)
(* C11, amended: that result is the one for k=1.  Without a k the stride   *)
(* is the window size, 3, and only the first of the 3 valid-mode points is *)
(* returned: uncertainty sqrt (1/3), then data 2.                          *)
(***************************************************************************)
C11_MovingAverageWithStride ==
    /\ USmoothExample(1) =>
          /\ call.out.kind = "list"
          /\ call.out.items =
                << <<ThirdRoot, ThirdRoot, ThirdRoot>>,
                   <<RInt(2), RInt(3), RInt(4)>> >>
    /\ USmoothExample(None) =>
          /\ call.out.kind = "list"
          /\ call.out.items = << <<ThirdRoot>>, <<RInt(2)>> >>

C11_Witness ==
    /\ USmoothExample(1)
    /\ Len(call.out.items[2]) = 3

\* The order of the extended reals, NaN left out: q < r and q <= r.
Position(a) == CASE a.kind = "-inf" -> 0 [] a.kind = "num" -> 1
                 [] a.kind = "inf" -> 2
Below(a, b) ==
    /\ a.kind # "nan" /\ b.kind # "nan"
    /\ \/ Position(a) < Position(b)
       \/ /\ a.kind = "num" /\ b.kind = "num"
          /\ a.v.num * b.v.den < b.v.num * a.v.den
NotAbove(a, b) == Below(a, b) \/ (a = b /\ a.kind # "nan")

\* Is v in the interval, or past the transition, that factory fn stands for?
InSupport(fn, args, v) ==
    CASE fn = "make_tophat_ee" -> Below(args[1], v) /\ Below(v, args[2])
      [] fn = "make_tophat_ei" -> Below(args[1], v) /\ NotAbove(v, args[2])
      [] fn = "make_tophat_ie" -> NotAbove(args[1], v) /\ Below(v, args[2])
      [] fn = "make_tophat_ii" -> NotAbove(args[1], v) /\ NotAbove(v, args[2])
      [] fn = "make_step_lcont" -> Below(args[1], v)
      [] fn = "make_step_rcont" -> NotAbove(args[1], v)

PiecewiseCalled ==
    /\ call.fn \in TophatFactories \cup StepFactories
    /\ call.called

ExampleTophat ==
    /\ PiecewiseCalled
    /\ call.fn = "make_tophat_ie"
    /\ call.args = <<Fin(RInt(0)), Fin(RInt(1))>>
    /\ call.x = XVector(SubSeq(Grid, 1, 5))

ExampleStep ==
    /\ PiecewiseCalled
    /\ call.fn = "make_step_rcont"
    /\ call.args = <<Fin(RInt(5))>>
    /\ call.x = XVector(<<Fin(RInt(4)), Fin(RInt(5)), Fin(RInt(6))>>)

AroundGapsIterated ==
    /\ gen.fn = "slice_around_gaps"
    /\ gen.status # "created"

\* maxgap is zero, negative or NaN.
MaxgapNotPositive(m) == m.kind = "nan" \/ (m.kind = "num" /\ m.v <= 0)

FailedWith(e) ==
    /\ gen.status = "raised"
    /\ gen.err = e
    /\ gen.yielded = <<>>

(***************************************************************************)
(* C13, as claimed: slice_around_gaps fails with the maxgap error when     *)
(* maxgap is zero, negative, NaN or +inf, and with the order error when a  *)
(* value is smaller than the one before it; no slice is produced then.     *)
(***************************************************************************)
C13_InfiniteMaxgapRejected ==
    AroundGapsIterated =>
        /\ (MaxgapNotPositive(gen.frame.maxgap) \/ gen.frame.maxgap = Inf)
              => FailedWith("ValueError:maxgap")
        /\ (gen.frame.maxgap.kind = "num" /\ gen.frame.maxgap.v > 0
              /\ ~Nondecreasing(gen.frame.values))
              => FailedWith("ValueError:order")

(***************************************************************************)
(* C13, amended: slice_around_gaps fails with the maxgap error when maxgap *)
(* is zero, negative or NaN, and for any other maxgap, +inf included, with *)
(* the order error when a value is smaller than the one before it; no      *)
(* slice is produced then.  With maxgap = +inf and values in order it does *)
(* not fail: it produces the one slice of all the values.                  *)
(***************************************************************************)
C13_InvalidArgumentsFail ==
    AroundGapsIterated =>
        /\ MaxgapNotPositive(gen.frame.maxgap)
              => FailedWith("ValueError:maxgap")
        /\ (~MaxgapNotPositive(gen.frame.maxgap)
              /\ ~Nondecreasing(gen.frame.values))
              => FailedWith("ValueError:order")
        /\ (gen.frame.maxgap = Inf /\ Nondecreasing(gen.frame.values))
              => /\ gen.status # "raised"
                 /\ gen.yielded = <<Slice(None, None)>>

C13_Witness ==
    /\ AroundGapsIterated
    /\ gen.frame.maxgap = Num(-1)
    /\ gen.frame.values = <<0, 1, 0>>
    /\ FailedWith("ValueError:maxgap")

\* The arguments that the slicers reject: maxgap or target_len not
\* positive, or values that decrease somewhere.
SlicerArgumentsInvalid ==
    \/ MaxgapNotPositive(gen.frame.maxgap)
    \/ ~Nondecreasing(gen.frame.values)
    \/ /\ gen.fn = "slice_evenly_with_gaps"
       /\ gen.frame.target_len.num <= 0

(***************************************************************************)
(* C14: the slicers validate at the call: slice_around_gaps and            *)
(* slice_evenly_with_gaps never hand back a slice sequence, not yet        *)
(* iterated, for an invalid maxgap, an invalid target_len or decreasing    *)
(* values.                                                                 *)
(***************************************************************************)
C14_ValidationIsEager ==
    (gen.fn # "none" /\ gen.status = "created") => ~SlicerArgumentsInvalid

\* floor (n / target_len)
FloorDiv(n, target_len) == (n * target_len.den) \div target_len.num

(***************************************************************************)
(* C15: for every gap-free run that slice_evenly_with_gaps handles, the    *)
(* run of no elements of an empty input included, nsegments is             *)
(* max (1, min (num_elements, floor (num_elements / target_len))), hence   *)
(* at least 1, and the slicer does not raise.                              *)
(***************************************************************************)
C15_AtLeastOneSegment ==
    (EvenlyValid /\ gen.status # "created") =>
        /\ gen.frame.nsegments =
              Max2(1, Min2(gen.frame.num_elements,
                           FloorDiv(gen.frame.num_elements,
                                    gen.frame.target_len)))
        /\ gen.frame.nsegments >= 1
        /\ gen.status # "raised"

====
